---- MODULE Spec2Model ----
(***************************************************************************)
(* Model of src/main.rs: the macro sqlite_from_struct!, whose expansion    *)
(* gives a struct a create_table function, and main, which opens the       *)
(* database and calls create_table for each struct.                        *)
(*                                                                         *)
(* A Rust string is a sequence of tokens.  The tokens "," and "\n" are     *)
(* single characters, so ends_with(",\n") and the two pop() calls of the   *)
(* code act on the last two elements.  A struct name is a sequence of      *)
(* characters, so to_lowercase acts on each of them.                       *)
(***************************************************************************)
EXTENDS Naturals, Sequences, FiniteSets

VARIABLES pc, prog, k, conn, db, table_name, create_sql, i,
          column_name, type_name, sql_type, result, out, executed

vars == <<pc, prog, k, conn, db, table_name, create_sql, i,
          column_name, type_name, sql_type, result, out, executed>>

\* ------------------------------------------------------------------ bounds

\* The longest field list of a struct definition drawn in Init.
MaxFields == 2

\* ------------------------------------------------------- struct definitions

F(n, t) == [name |-> n, ty |-> t]

\* struct User (lines 109-119)
User ==
  [name   |-> <<"U", "s", "e", "r">>,
   fields |-> <<F("id", "i32"), F("name", "String"), F("email", "String"),
                F("age", "u32"), F("is_active", "bool")>>]

\* struct Product (lines 122-132)
Product ==
  [name   |-> <<"P", "r", "o", "d", "u", "c", "t">>,
   fields |-> <<F("id", "i32"), F("name", "String"), F("price", "f64"),
                F("in_stock", "bool"), F("image_data", "Vec<u8>")>>]

\* The create_table calls of main, in order (lines 146 and 152).
ActualProgram == <<User, Product>>

\* ------------------------------------------------------------ pure helpers

UpperCase == <<"A","B","C","D","E","F","G","H","I","J","K","L","M",
               "N","O","P","Q","R","S","T","U","V","W","X","Y","Z">>
LowerCase == <<"a","b","c","d","e","f","g","h","i","j","k","l","m",
               "n","o","p","q","r","s","t","u","v","w","x","y","z">>

\* char::to_lowercase on one character
LowerChar(c) ==
  IF \E n \in 1..26 : UpperCase[n] = c
    THEN LowerCase[CHOOSE n \in 1..26 : UpperCase[n] = c]
    ELSE c

\* str::to_lowercase
to_lowercase(s) == [n \in 1..Len(s) |-> LowerChar(s[n])]

TableNameNoLower(struct_name) == struct_name \o <<"s">>

\* line 54: stringify!($struct_name).to_lowercase() + "s"
TableName(struct_name) == to_lowercase(struct_name) \o <<"s">>

HeaderNoGuard(tn) == <<"CREATE TABLE ">> \o tn \o <<" (", "\n">>

\* line 55: format!("CREATE TABLE IF NOT EXISTS {} (\n", table_name)
Header(tn) == <<"CREATE TABLE ", "IF NOT EXISTS ">> \o tn \o <<" (", "\n">>

SqlTypeOfNoBlob(t) ==
  CASE t \in {"i32", "i64", "u32", "u64", "isize", "usize"} -> "INTEGER"
    [] t \in {"f32", "f64"} -> "REAL"
    [] t \in {"String", "&str"} -> "TEXT"
    [] t = "bool" -> "INTEGER"
    [] OTHER -> "TEXT"

SqlTypeOfBoolAsBoolean(t) ==
  CASE t \in {"i32", "i64", "u32", "u64", "isize", "usize"} -> "INTEGER"
    [] t \in {"f32", "f64"} -> "REAL"
    [] t \in {"String", "&str"} -> "TEXT"
    [] t = "bool" -> "BOOLEAN"
    [] t = "Vec<u8>" -> "BLOB"
    [] OTHER -> "TEXT"

\* lines 65-72: the match on the stringified field type
SqlTypeOf(t) ==
  CASE t \in {"i32", "i64", "u32", "u64", "isize", "usize"} -> "INTEGER"
    [] t \in {"f32", "f64"} -> "REAL"
    [] t \in {"String", "&str"} -> "TEXT"
    [] t = "bool" -> "INTEGER"
    [] t = "Vec<u8>" -> "BLOB"
    [] OTHER -> "TEXT"

ColumnLineKeyByNameOnly(cn, st) ==
  IF cn = "id"
    THEN <<"    ", cn, " ", st, " ", "PRIMARY KEY AUTOINCREMENT", ",", "\n">>
    ELSE <<"    ", cn, " ", st, ",", "\n">>

\* lines 75-79: the text pushed for one field
ColumnLine(cn, st) ==
  IF cn = "id" /\ st = "INTEGER"
    THEN <<"    ", cn, " ", st, " ", "PRIMARY KEY AUTOINCREMENT", ",", "\n">>
    ELSE <<"    ", cn, " ", st, ",", "\n">>

\* str::ends_with(",\n")
EndsWithCommaNewline(s) ==
  Len(s) >= 2 /\ s[Len(s) - 1] = "," /\ s[Len(s)] = "\n"

\* String::pop
Pop(s) == IF Len(s) = 0 THEN s ELSE SubSeq(s, 1, Len(s) - 1)

StripSeparatorNever(s) == s

\* lines 83-86: remove the last comma and newline
StripSeparator(s) == IF EndsWithCommaNewline(s) THEN Pop(Pop(s)) ELSE s

\* line 89: create_sql.push_str("\n);")
CloseStatement(s) == s \o <<"\n", ");">>

\* lines 55-89 as a function of the struct definition: the statement that
\* create_table builds for the first n fields, before it is closed
RECURSIVE Lines(_, _)
Lines(fields, n) ==
  IF n = 0 THEN <<>>
  ELSE Lines(fields, n - 1)
         \o ColumnLine(fields[n].name, SqlTypeOf(fields[n].ty))

Compile(s) ==
  CloseStatement(StripSeparator(Header(TableName(s.name))
                                  \o Lines(s.fields, Len(s.fields))))

\* ------------------------------------------------------ the database engine
\* What Connection::execute does with a CREATE TABLE statement (line 97).

HasGuard(sql) == Len(sql) >= 2 /\ sql[2] = "IF NOT EXISTS "

ParenAt(sql) ==
  CHOOSE n \in 1..Len(sql) :
    sql[n] = " (" /\ \A m \in 1..(n - 1) : sql[m] # " ("

StatementTable(sql) ==
  SubSeq(sql, IF HasGuard(sql) THEN 3 ELSE 2, ParenAt(sql) - 1)

IsWhite(t) == t \in {"\n", "    ", " ", ");"}

StatementBody(sql) ==
  SelectSeq(SubSeq(sql, ParenAt(sql) + 1, Len(sql)), LAMBDA t : ~IsWhite(t))

CommaAt(ts) ==
  IF \E n \in 1..Len(ts) : ts[n] = ","
    THEN CHOOSE n \in 1..Len(ts) :
           ts[n] = "," /\ \A m \in 1..(n - 1) : ts[m] # ","
    ELSE 0

RECURSIVE SplitColumns(_)
SplitColumns(ts) ==
  IF ts = <<>> THEN <<>>
  ELSE IF CommaAt(ts) = 0 THEN <<ts>>
  ELSE <<SubSeq(ts, 1, CommaAt(ts) - 1)>>
         \o SplitColumns(SubSeq(ts, CommaAt(ts) + 1, Len(ts)))

StatementColumns(sql) == SplitColumns(StatementBody(sql))

TableExists(d, tn) == \E t \in d : t.name = tn

\* The outcome of executing sql on database d.  fault stands for every
\* failure the engine decides by itself (I/O error, rejected statement).
EngineExecute(d, sql, fault) ==
  IF fault
    THEN [ok |-> FALSE, err |-> "engine error", db |-> d]
  ELSE IF TableExists(d, StatementTable(sql))
    THEN IF HasGuard(sql)
           THEN [ok |-> TRUE, err |-> "", db |-> d]
           ELSE [ok |-> FALSE, err |-> "table already exists", db |-> d]
  ELSE [ok |-> TRUE, err |-> "",
        db |-> d \cup {[name    |-> StatementTable(sql),
                        columns |-> StatementColumns(sql)]}]

\* ------------------------------------------------------------------ inputs

\* The primitive integer types of Rust.
IntegerTypes ==
  {"i8", "i16", "i32", "i64", "i128", "isize",
   "u8", "u16", "u32", "u64", "u128", "usize"}

FloatTypes == {"f32", "f64"}
TextTypes  == {"String", "&str"}

\* Types that are none of integer, float, text, bool or byte vector.
OtherTypes == {"char", "Option<i32>"}

TypeNames ==
  IntegerTypes \cup FloatTypes \cup TextTypes \cup {"bool", "Vec<u8>"}
    \cup OtherTypes

\* The types used in field lists of more than one field.
SampleTypes == {"i32", "bool", "String", "f64", "i8", "Vec<u8>"}

FieldNames == {"id", "name", "age"}

Box    == <<"B", "o", "x">>
ApiKey == <<"A", "p", "i", "K", "e", "y">>

StructNames == {Box, ApiKey}

\* Field lists of length n; a struct cannot declare one field name twice.
FieldLists(types, n) ==
  {fs \in [1..n -> [name : FieldNames, ty : types]] :
     \A a, b \in 1..n : a # b => fs[a].name # fs[b].name}

AllFieldLists ==
  FieldLists(TypeNames, 1)
    \cup UNION {FieldLists(SampleTypes, n) : n \in 0..MaxFields}

Structs == {[name |-> sn, fields |-> fs] : sn \in StructNames, fs \in AllFieldLists}

\* main as written, and a main that calls create_table of one struct twice.
Programs == {ActualProgram} \cup {<<s, s>> : s \in Structs}

\* The table an earlier run of the program left in the database file.
TableOf(s) ==
  [name |-> StatementTable(Compile(s)), columns |-> StatementColumns(Compile(s))]

\* ----------------------------------------------------------------- actions

Init ==
  /\ prog \in Programs
  /\ db \in SUBSET {TableOf(prog[n]) : n \in 1..Len(prog)}
  /\ pc = "open"
  /\ k = 1
  /\ conn = "none"
  /\ table_name = <<>>
  /\ create_sql = <<>>
  /\ i = 0
  /\ column_name = ""
  /\ type_name = ""
  /\ sql_type = ""
  /\ result = <<"none">>
  /\ out = <<>>
  /\ executed = <<>>

MainOpenIgnoreFailure ==
  /\ pc = "open"
  /\ \E ok \in BOOLEAN :
       IF ok
         THEN conn' = "open" /\ out' = out
         ELSE conn' = "failed" /\ out' = Append(out, <<"Failed to open database">>)
  /\ pc' = "call"
  /\ UNCHANGED <<prog, k, db, table_name, create_sql, i,
                 column_name, type_name, sql_type, result, executed>>

\* lines 137-143: Connection::open and its match
MainOpen ==
  /\ pc = "open"
  /\ \E ok \in BOOLEAN :
       IF ok
         THEN conn' = "open" /\ out' = out /\ pc' = "call"
         ELSE /\ conn' = "failed"
              /\ out' = Append(out, <<"Failed to open database">>)
              /\ pc' = "exit"
  /\ UNCHANGED <<prog, k, db, table_name, create_sql, i,
                 column_name, type_name, sql_type, result, executed>>

\* lines 146 and 152, then lines 54-55: main calls create_table of its k-th
\* struct, which derives the table name and starts the statement
CreateTableEnter ==
  /\ pc = "call"
  /\ table_name' = TableName(prog[k].name)
  /\ create_sql' = Header(TableName(prog[k].name))
  /\ i' = 0
  /\ result' = <<"none">>
  /\ pc' = "fields"
  /\ UNCHANGED <<prog, k, conn, db, column_name, type_name, sql_type,
                 out, executed>>

\* lines 58-80: one repetition of the macro's per-field block
PushField ==
  /\ pc = "fields"
  /\ i < Len(prog[k].fields)
  /\ i' = i + 1
  /\ column_name' = prog[k].fields[i + 1].name
  /\ type_name' = prog[k].fields[i + 1].ty
  /\ sql_type' = SqlTypeOf(prog[k].fields[i + 1].ty)
  /\ create_sql' = create_sql
                     \o ColumnLine(prog[k].fields[i + 1].name,
                                   SqlTypeOf(prog[k].fields[i + 1].ty))
  /\ UNCHANGED <<pc, prog, k, conn, db, table_name, result, out, executed>>

\* lines 83-94: strip the separator, close the statement, print it
CloseAndPrint ==
  /\ pc = "fields"
  /\ i = Len(prog[k].fields)
  /\ create_sql' = CloseStatement(StripSeparator(create_sql))
  /\ out' = Append(out, <<"Generated SQL", create_sql'>>)
  /\ pc' = "execute"
  /\ UNCHANGED <<prog, k, conn, db, table_name, i, column_name, type_name,
                 sql_type, result, executed>>

ExecuteSwallowError ==
  /\ pc = "execute"
  /\ \E fault \in BOOLEAN :
       LET r == EngineExecute(db, create_sql, fault) IN
         /\ db' = r.db
         /\ executed' = Append(executed,
                                [call |-> k, sql |-> create_sql, fault |-> fault,
                                 ok |-> r.ok, err |-> r.err,
                                 before |-> db, after |-> r.db])
         /\ out' = Append(out, <<"Successfully created table", table_name>>)
         /\ result' = <<"Ok">>
  /\ pc' = "report"
  /\ UNCHANGED <<prog, k, conn, table_name, create_sql, i,
                 column_name, type_name, sql_type>>

\* lines 97-101: execute the statement; `?` returns its error, otherwise
\* print the confirmation and return Ok
Execute ==
  /\ pc = "execute"
  /\ \E fault \in BOOLEAN :
       LET r == EngineExecute(db, create_sql, fault) IN
         /\ db' = r.db
         /\ executed' = Append(executed,
                                [call |-> k, sql |-> create_sql, fault |-> fault,
                                 ok |-> r.ok, err |-> r.err,
                                 before |-> db, after |-> r.db])
         /\ IF r.ok
              THEN /\ out' = Append(out, <<"Successfully created table", table_name>>)
                   /\ result' = <<"Ok">>
              ELSE /\ out' = out
                   /\ result' = <<"Err", r.err>>
  /\ pc' = "report"
  /\ UNCHANGED <<prog, k, conn, table_name, create_sql, i,
                 column_name, type_name, sql_type>>

\* lines 146-149 and 152-155: main prints the outcome and goes on
MainReport ==
  /\ pc = "report"
  /\ out' = Append(out, IF result[1] = "Ok"
                          THEN <<"table creation successful", k>>
                          ELSE <<"Error creating table", k, result[2]>>)
  /\ k' = k + 1
  /\ pc' = IF k + 1 > Len(prog) THEN "exit" ELSE "call"
  /\ UNCHANGED <<prog, conn, db, table_name, create_sql, i,
                 column_name, type_name, sql_type, result, executed>>

Next ==
  \/ MainOpen
  \/ CreateTableEnter
  \/ PushField
  \/ CloseAndPrint
  \/ Execute
  \/ MainReport

Spec == Init /\ [][Next]_vars

\* ------------------------------------------------------------------ claims

\* create_table of the k-th struct has pushed at least one field
Pushed == pc \in {"fields", "execute", "report"} /\ i >= 1

\* create_table of the k-th struct has closed its statement
Compiled == pc \in {"execute", "report"}

\* C1: every integer field type, of any signedness and width, is mapped to
\* the SQL type INTEGER.
C1_IntegerTypesMapToInteger ==
  (Pushed /\ type_name \in IntegerTypes) => sql_type = "INTEGER"

\* The fixed table, read off the field pushed last.
C2_Table ==
  Pushed =>
    /\ type_name \in FloatTypes => sql_type = "REAL"
    /\ type_name \in TextTypes => sql_type = "TEXT"
    /\ type_name = "bool" => sql_type = "INTEGER"
    /\ type_name = "Vec<u8>" => sql_type = "BLOB"
    /\ type_name \notin IntegerTypes \cup FloatTypes \cup TextTypes
                          \cup {"bool", "Vec<u8>"} => sql_type = "TEXT"
    /\ sql_type \in {"INTEGER", "REAL", "TEXT", "BLOB"}

\* C2: the type mapper agrees with the fixed table: float -> REAL, text ->
\* TEXT, bool -> INTEGER, byte vector -> BLOB, any type outside the table ->
\* TEXT; its result is never empty, and mapping the same type again gives
\* the same result.
C2_TypeMapperTable ==
  /\ []C2_Table
  /\ [][(Pushed /\ Pushed' /\ type_name' = type_name)
          => sql_type' = sql_type]_vars

C2_Witness ==
  Pushed /\ type_name = "Option<i32>" /\ sql_type = "TEXT"

\* The column fragment of the line pushed last: the pushed text without its
\* indentation and without its trailing separator.
LastIndent(s) ==
  CHOOSE n \in 1..Len(s) :
    s[n] = "    " /\ \A m \in (n + 1)..Len(s) : s[m] # "    "

LastFragment(s) == SubSeq(s, LastIndent(s) + 1, Len(s) - 2)

KeyFragment == <<"id", " ", "INTEGER", " ", "PRIMARY KEY AUTOINCREMENT">>

\* C3: the column fragment of a field is "id INTEGER PRIMARY KEY
\* AUTOINCREMENT" exactly when the field is named id and its SQL type is
\* INTEGER; every other field yields "<name> <SQLTYPE>" and no suffix.
C3_PrimaryKeyRule ==
  (pc = "fields" /\ i >= 1) =>
    /\ LastFragment(create_sql) = KeyFragment
         <=> (column_name = "id" /\ sql_type = "INTEGER")
    /\ ~(column_name = "id" /\ sql_type = "INTEGER")
         => LastFragment(create_sql) = <<column_name, " ", sql_type>>

C3_Witness ==
  /\ pc = "fields" /\ i >= 1
  /\ column_name = "id" /\ type_name = "String"
  /\ LastFragment(create_sql) = <<"id", " ", "TEXT">>

\* The column fragment the rule of C3 gives a field, by the code's SQL type.
Fragment(f) ==
  IF f.name = "id" /\ SqlTypeOf(f.ty) = "INTEGER"
    THEN KeyFragment
    ELSE <<f.name, " ", SqlTypeOf(f.ty)>>

\* The columns of the compiled statement, as the engine reads them.
IsKeyColumn(col) ==
  \E n \in 1..Len(col) : col[n] = "PRIMARY KEY AUTOINCREMENT"

\* The first field named id whose type is an integer type, or 0.
FirstIntegerId(fields) ==
  IF \E n \in 1..Len(fields) : fields[n].name = "id" /\ fields[n].ty \in IntegerTypes
    THEN CHOOSE n \in 1..Len(fields) :
           /\ fields[n].name = "id" /\ fields[n].ty \in IntegerTypes
           /\ \A m \in 1..(n - 1) :
                ~(fields[m].name = "id" /\ fields[m].ty \in IntegerTypes)
    ELSE 0

RECURSIVE Joined(_, _, _)
Joined(fields, n, indent) ==
  IF n = 0 THEN <<>>
  ELSE IF n = 1 THEN indent \o Fragment(fields[1])
  ELSE Joined(fields, n - 1, indent) \o <<",", "\n">>
         \o indent \o Fragment(fields[n])

Statement(s, indent) ==
  <<"CREATE TABLE ", "IF NOT EXISTS ">> \o table_name \o <<" (", "\n">>
    \o Joined(s.fields, Len(s.fields), indent)
    \o <<"\n", ");">>

\* C5 as stated: the statement is the header, the fragments in declaration
\* order joined by ",\n", and "\n);", with no comma before the parenthesis.
C5_FragmentsJoinedBare ==
  Compiled => create_sql = Statement(prog[k], <<>>)

\* C5, amended: the same, with every fragment preceded by four spaces; for
\* no field the statement is the header followed by "\n);".
C5_FragmentsJoinedIndented ==
  Compiled =>
    /\ create_sql = Statement(prog[k], <<"    ">>)
    /\ create_sql[Len(create_sql) - 2] # ","
    /\ Len(prog[k].fields) = 0 =>
         create_sql = <<"CREATE TABLE ", "IF NOT EXISTS ">> \o table_name
                        \o <<" (", "\n", "\n", ");">>

C5_Witness ==
  /\ Compiled
  /\ Len(prog[k].fields) = 2
  /\ create_sql = Statement(prog[k], <<"    ">>)

\* The columns a table created from the struct holds: name, SQL type and,
\* for the key column, the constraint.
DerivedColumns(s) ==
  [n \in 1..Len(s.fields) |->
     SelectSeq(Fragment(s.fields[n]), LAMBDA t : t # " ")]

TablesNamed(tn) == {t \in db : t.name = tn}

\* C6: applying the same statement twice on one connection succeeds both
\* times (an execution fails only when the engine itself fails), the second
\* application leaves the database as the first left it, and the database
\* then holds exactly one table of the derived name, with the derived columns.
C6_ApplyTwiceIdempotent ==
  /\ \A n \in 1..Len(executed) : ~executed[n].fault => executed[n].ok
  /\ (/\ Len(executed) = 2
      /\ prog[1] = prog[2]
      /\ executed[1].ok /\ executed[2].ok)
       => /\ executed[2].sql = executed[1].sql
          /\ executed[2].after = executed[1].after
          /\ db = executed[1].after
          /\ TablesNamed(table_name)
               = {[name |-> table_name, columns |-> DerivedColumns(prog[1])]}

C6_Witness ==
  /\ Len(executed) = 2
  /\ prog[1] = prog[2]
  /\ Len(prog[1].fields) = 2
  /\ executed[1].before = {}
  /\ executed[1].ok /\ executed[2].ok
  /\ db = executed[1].after
  /\ Cardinality(db) = 1

Confirmations ==
  Cardinality({n \in 1..Len(out) : out[n][1] = "Successfully created table"})

Successes == Cardinality({n \in 1..Len(executed) : executed[n].ok})

\* C7: create_table executes its statement exactly once; when the execution
\* fails it returns that error, emits no confirmation and does not return Ok;
\* it returns Ok, after emitting the confirmation, only when the execution
\* succeeded.
C7_ErrorPropagated ==
  /\ Len(executed) <= k
  /\ Confirmations = Successes
  /\ pc = "report" =>
       /\ Len(executed) = k
       /\ executed[k].call = k
       /\ executed[k].sql = create_sql
       /\ ~executed[k].ok
            => /\ result = <<"Err", executed[k].err>>
               /\ out[Len(out)][1] = "Generated SQL"
       /\ result = <<"Ok">>
            => /\ executed[k].ok
               /\ out[Len(out)] = <<"Successfully created table", table_name>>
       /\ result[1] \in {"Ok", "Err"}

C7_Witness ==
  /\ pc = "report"
  /\ ~executed[k].ok
  /\ result = <<"Err", "engine error">>
  /\ Confirmations = 0

\* The table names the claim states, and those of two further struct names.
StatedTableName(struct_name) ==
  CASE struct_name = <<"U", "s", "e", "r">> -> <<"u", "s", "e", "r", "s">>
    [] struct_name = <<"P", "r", "o", "d", "u", "c", "t">>
         -> <<"p", "r", "o", "d", "u", "c", "t", "s">>
    [] struct_name = <<"B", "o", "x">> -> <<"b", "o", "x", "s">>
    [] struct_name = <<"A", "p", "i", "K", "e", "y">>
         -> <<"a", "p", "i", "k", "e", "y", "s">>

\* C8: the table name is the lower-cased struct name followed by the letter
\* s (User -> users, Product -> products), with no irregular plural, whatever
\* the fields are.
C8_TableNameLowerPlusS ==
  pc \in {"fields", "execute", "report"} =>
    /\ table_name = StatedTableName(prog[k].name)
    /\ Len(table_name) = Len(prog[k].name) + 1
    /\ table_name[Len(table_name)] = "s"
    /\ SubSeq(create_sql, 3, 2 + Len(table_name)) = table_name

C8_Witness ==
  /\ pc = "execute"
  /\ prog[k].name = <<"A", "p", "i", "K", "e", "y">>
  /\ table_name = <<"a", "p", "i", "k", "e", "y", "s">>

users    == <<"u", "s", "e", "r", "s">>
products == <<"p", "r", "o", "d", "u", "c", "t", "s">>

UsersColumns ==
  << <<"id", "INTEGER", "PRIMARY KEY AUTOINCREMENT">>,
     <<"name", "TEXT">>, <<"email", "TEXT">>,
     <<"age", "INTEGER">>, <<"is_active", "INTEGER">> >>

ProductsColumns ==
  << <<"id", "INTEGER", "PRIMARY KEY AUTOINCREMENT">>,
     <<"name", "TEXT">>, <<"price", "REAL">>,
     <<"in_stock", "INTEGER">>, <<"image_data", "BLOB">> >>

\* C9: in main as written, the statement compiled for User names the table
\* users and the columns id INTEGER PRIMARY KEY AUTOINCREMENT, name TEXT,
\* email TEXT, age INTEGER, is_active INTEGER, in this order; the one for
\* Product names products and id INTEGER PRIMARY KEY AUTOINCREMENT, name
\* TEXT, price REAL, in_stock INTEGER, image_data BLOB; the tables created
\* hold these columns.
C9_UserAndProductTables ==
  prog = ActualProgram =>
    /\ (Compiled /\ k = 1)
         => /\ StatementTable(create_sql) = users
            /\ StatementColumns(create_sql) = UsersColumns
    /\ (Compiled /\ k = 2)
         => /\ StatementTable(create_sql) = products
            /\ StatementColumns(create_sql) = ProductsColumns
    /\ \A t \in db : /\ t.name \in {users, products}
                     /\ t.name = users => t.columns = UsersColumns
                     /\ t.name = products => t.columns = ProductsColumns
    /\ \A n \in 1..Len(executed) :
         executed[n].ok =>
           \E t \in db : t.name = IF executed[n].call = 1 THEN users ELSE products

C9_Witness ==
  /\ prog = ActualProgram
  /\ pc = "exit"
  /\ Len(executed) = 2
  /\ executed[1].before = {}
  /\ db = {[name |-> users, columns |-> UsersColumns],
           [name |-> products, columns |-> ProductsColumns]}

\* C10: when opening the connection fails, the failure is reported, no
\* create_table call is made and no statement is executed; a statement is
\* executed only on a connection that was opened.
C10_NoCallWithoutConnection ==
  /\ conn = "failed"
       => /\ pc = "exit"
          /\ out = << <<"Failed to open database">> >>
          /\ executed = <<>>
          /\ k = 1 /\ create_sql = <<>> /\ table_name = <<>>
  /\ (pc \in {"call", "fields", "execute", "report"} \/ executed # <<>>)
       => conn = "open"

C10_Witness ==
  conn = "failed" /\ pc = "exit" /\ executed = <<>>

====
